---- MODULE Spec2Model ----
(***************************************************************************)
(* Token lifecycle and guild-membership reconciliation of                  *)
(* Oauth-Discord-Joiner: discord_oauth/oauth.py (class Oauth), the bot     *)
(* commands join_all and refresh_all of bot.py and the routes /callback,   *)
(* /join_all and /refresh_all of web.py.                                   *)
(*                                                                         *)
(* The provider (Discord) is the environment: every answer it gives is a   *)
(* nondeterministic choice of a status code and of the fields of its body. *)
(* User ids, usernames and tokens are all Python str values; nothing in    *)
(* the code keeps the value of a token apart from the value of a user id,  *)
(* so the provider draws access tokens from Strings, which holds both.     *)
(* A behaviour is one command or one web request, started on any store    *)
(* and guild roster; the steps of a handler are the awaits of its code.    *)
(* Spec is the commands and routes, SpecJoin two calls of Oauth.join in a  *)
(* row, SpecConc two coroutines calling the token methods on one store.    *)
(***************************************************************************)
EXTENDS Naturals, FiniteSets, Sequences, TLC

\* ------------------------------------------------------------------ bounds
\* The most records one loop of a command ranges over.
MaxBatch == 2

\* ------------------------------------------------------------------ values
\* Tokens held by the records of the store before the handler runs.
Tokens == {"t1", "t2"}
\* An access token the provider has not issued before.
FreshTokens == {"t3"}
UserIds == {"A", "B", "C"}
\* The str values of an access token the provider issues: a fresh value, or
\* one that is also the value of a user id.
IssuedTokens == FreshTokens \cup UserIds
Strings == Tokens \cup IssuedTokens
RefreshTokens == {"r1", "r2", "r3"}
IssuedRefreshTokens == {"r3"}
Usernames == {"n1"}
Scopes == {"identify", "guilds.join", "email"}
RequiredScopes == {"identify", "guilds.join"}
Statuses == {200, 201, 204, 400, 401, 403, 404, 429, 500}
Methods == {"GET", "POST", "PUT"}

NoExc == "none"
\* Python's None / an empty return value.
NoneVal == <<>>
NoResp == [status |-> 0, error |-> "absent"]

\* What the provider can answer: a status, and for a 400 the "error" field of
\* the JSON body ("absent": the body has no such key).
Responses ==
  {[status |-> s, error |-> "absent"] : s \in Statuses \ {400}}
    \cup {[status |-> 400, error |-> e] :
            e \in {"invalid_grant", "invalid_request", "absent"}}

\* The fields of a 200 answer of the token endpoint.
TokenBodies ==
  [access_token : IssuedTokens, refresh_token : IssuedRefreshTokens,
   scope : SUBSET Scopes]
\* The fields of a 200 answer of /users/@me ("" : an empty string).
UserBodies == [id : UserIds \cup {""}, username : Usernames \cup {""}]

\* A UserRecord without its key.
Records == [username : Usernames, access_token : Strings, refresh_token : RefreshTokens]

VARIABLES
  store,          \* collection "users": user id -> record
  guild,          \* ctx.guild.members, as ids
  pc,             \* position of the handler that is running
  cmd,            \* the handler that is running
  db_members,     \* join_all: local db_members
  guild_members,  \* join_all: local guild_members
  pending,        \* join_all: members the for loop has not reached yet
  member,         \* join_all: loop variable
  refresh_resp,   \* join_all: local refresh_resp
  completed,      \* join_all: local completed
  cursor,         \* refresh_all: records the async for has not reached yet
  userid,         \* validate_user: local userid
  exc,            \* exception that left the handler (NoExc: none)
  sent,           \* completion messages sent by the running command
  validated,      \* outcome of validate_user: "true", "false", an exception, NoExc
  rolePuts,       \* role-grant PUT requests issued by validate_user
  roleStatus,     \* the status answered to the role-grant PUT (0: none issued)
  calls,          \* calls of join / set_refresh_token made by the running command
  last,           \* the most recent call of an Oauth method, with its answer
  store0,         \* the store when the running handler started
  joins,          \* join_all: calls of join since the last asyncio.sleep(1)
  refreshes,      \* join_all: calls of set_refresh_token in this iteration
  edits,          \* join_all: msg.edit calls (progress edits) of the run
  issued,         \* the token body the latest token exchange was answered with
  profile,        \* validate_user: what get_user returned (id, username)
  procs,          \* concurrent calls of Oauth methods: position and locals
  rejected,       \* refresh tokens the provider answered invalid_grant to
  purged          \* refresh tokens held by records when they were deleted

vars ==
  << store, guild, pc, cmd, db_members, guild_members, pending, member,
     refresh_resp, completed, cursor, userid, exc, sent, validated, rolePuts,
     roleStatus, calls, last, store0, joins, refreshes, edits, issued,
     profile, procs, rejected, purged >>

\* The state of the concurrent callers; a command or a route leaves it alone.
concvars == << procs, rejected, purged >>

\* The state of the commands and routes; a concurrent caller leaves it alone.
runvars ==
  << guild, pc, cmd, db_members, guild_members, pending, member, refresh_resp,
     completed, cursor, userid, exc, sent, validated, rolePuts, roleStatus,
     calls, last, store0, joins, refreshes, edits, issued, profile >>

\* ------------------------------------------------------------ Oauth (pure)
Raise(e) == [exc |-> e, status |-> 0]

\* Oauth.__request, from the answer on: the classification of the status.
\* A PUT never decodes the body (response = {}), so its 400 raises KeyError.
request(method, resp) ==
  IF method \notin Methods THEN Raise("Exception")
  ELSE IF resp.status = 401 THEN Raise("Unauthorized")
  ELSE IF resp.status = 429 THEN Raise("RateLimited")
  ELSE IF resp.status = 400 THEN
    IF method = "PUT" \/ resp.error = "absent" THEN Raise("KeyError")
    ELSE IF resp.error = "invalid_grant" THEN Raise("InvalidGrant")
    ELSE Raise("Exception")
  ELSE [exc |-> NoExc, status |-> resp.status]

\* Mutant of update_db: the collection is replaced by the one record.
update_db_replaces_collection(db, user, access_token, refresh_token) ==
  [k \in {user[1]} |->
     [username |-> user[2], access_token |-> access_token,
      refresh_token |-> refresh_token]]

\* Oauth.update_db: upsert keyed by the user id.
update_db(db, user, access_token, refresh_token) ==
  [k \in DOMAIN db \cup {user[1]} |->
     IF k = user[1]
     THEN [username |-> user[2], access_token |-> access_token,
           refresh_token |-> refresh_token]
     ELSE db[k]]

\* collection.delete_one({"_id": id})
delete_one(db, id) == [k \in DOMAIN db \ {id} |-> db[k]]

\* Oauth.get_user: the body of a status other than 200 has no "id".
get_user(resp, body) ==
  LET r == request("GET", resp) IN
  IF r.exc # NoExc THEN [exc |-> r.exc, ret |-> NoneVal]
  ELSE IF r.status # 200 THEN [exc |-> "KeyError", ret |-> NoneVal]
  ELSE [exc |-> NoExc, ret |-> <<body.id, body.username>>]

\* Mutant of set_access_token: the record is upserted before the scopes are
\* checked.
set_access_token_upsert_first(db, resp, body, uresp, ubody) ==
  LET r == request("POST", resp) IN
  IF r.exc # NoExc THEN [exc |-> r.exc, ret |-> NoneVal, db |-> db]
  ELSE IF r.status # 200 THEN [exc |-> "KeyError", ret |-> NoneVal, db |-> db]
  ELSE LET u == get_user(uresp, ubody) IN
    IF u.exc # NoExc THEN [exc |-> u.exc, ret |-> NoneVal, db |-> db]
    ELSE IF ~(RequiredScopes \subseteq body.scope)
    THEN [exc |-> "InvalidScope", ret |-> NoneVal,
          db |-> update_db(db, u.ret, body.access_token, body.refresh_token)]
    ELSE [exc |-> NoExc,
          ret |-> <<u.ret[1], u.ret[2], body.access_token>>,
          db  |-> update_db(db, u.ret, body.access_token, body.refresh_token)]

\* Mutant of set_access_token: the token pair is returned but not persisted.
set_access_token_without_upsert(db, resp, body, uresp, ubody) ==
  LET r == request("POST", resp) IN
  IF r.exc # NoExc THEN [exc |-> r.exc, ret |-> NoneVal, db |-> db]
  ELSE IF r.status # 200 THEN [exc |-> "KeyError", ret |-> NoneVal, db |-> db]
  ELSE IF ~(RequiredScopes \subseteq body.scope)
    THEN [exc |-> "InvalidScope", ret |-> NoneVal, db |-> db]
  ELSE LET u == get_user(uresp, ubody) IN
    IF u.exc # NoExc THEN [exc |-> u.exc, ret |-> NoneVal, db |-> db]
    ELSE [exc |-> NoExc,
          ret |-> <<u.ret[1], u.ret[2], body.access_token>>,
          db  |-> db]

\* Oauth.set_access_token: resp/body answer the code exchange, uresp/ubody the
\* profile lookup.
set_access_token(db, resp, body, uresp, ubody) ==
  LET r == request("POST", resp) IN
  IF r.exc # NoExc THEN [exc |-> r.exc, ret |-> NoneVal, db |-> db]
  ELSE IF r.status # 200 THEN [exc |-> "KeyError", ret |-> NoneVal, db |-> db]
  ELSE IF ~(RequiredScopes \subseteq body.scope)
    THEN [exc |-> "InvalidScope", ret |-> NoneVal, db |-> db]
  ELSE LET u == get_user(uresp, ubody) IN
    IF u.exc # NoExc THEN [exc |-> u.exc, ret |-> NoneVal, db |-> db]
    ELSE [exc |-> NoExc,
          ret |-> <<u.ret[1], u.ret[2], body.access_token>>,
          db  |-> IF u.ret[1] # "" /\ u.ret[2] # ""
                  THEN update_db(db, u.ret, body.access_token, body.refresh_token)
                  ELSE db]

\* Mutant of set_refresh_token: an invalid grant returns None and keeps the
\* record.
set_refresh_token_keeps_record(db, user_id, resp, body) ==
  IF user_id \notin DOMAIN db
  THEN [exc |-> "UnknownUser", ret |-> NoneVal, db |-> db]
  ELSE LET r == request("POST", resp) IN
    IF r.exc = "InvalidGrant" THEN [exc |-> NoExc, ret |-> NoneVal, db |-> db]
    ELSE IF r.exc # NoExc THEN [exc |-> r.exc, ret |-> NoneVal, db |-> db]
    ELSE IF r.status # 200 THEN [exc |-> "KeyError", ret |-> NoneVal, db |-> db]
    ELSE [exc |-> NoExc,
          ret |-> <<user_id, db[user_id].username, body.access_token>>,
          db  |-> update_db(db, <<user_id, db[user_id].username>>,
                            body.access_token, body.refresh_token)]

\* Oauth.set_refresh_token
set_refresh_token(db, user_id, resp, body) ==
  IF user_id \notin DOMAIN db
  THEN [exc |-> "UnknownUser", ret |-> NoneVal, db |-> db]
  ELSE LET r == request("POST", resp) IN
    IF r.exc = "InvalidGrant"
    THEN [exc |-> NoExc, ret |-> NoneVal, db |-> delete_one(db, user_id)]
    ELSE IF r.exc # NoExc THEN [exc |-> r.exc, ret |-> NoneVal, db |-> db]
    ELSE IF r.status # 200 THEN [exc |-> "KeyError", ret |-> NoneVal, db |-> db]
    ELSE [exc |-> NoExc,
          ret |-> <<user_id, db[user_id].username, body.access_token>>,
          db  |-> update_db(db, <<user_id, db[user_id].username>>,
                            body.access_token, body.refresh_token)]

\* Mutant of join: a 204 answer is reported as "Success".
join_204_success(db, user_id, resp) ==
  IF user_id \notin DOMAIN db THEN [exc |-> "UnknownUser", ret |-> ""]
  ELSE LET r == request("PUT", resp) IN
    IF r.exc # NoExc THEN [exc |-> r.exc, ret |-> ""]
    ELSE IF r.status \in {201, 204} THEN [exc |-> NoExc, ret |-> "Success"]
    ELSE IF r.status = 403 THEN [exc |-> "AccessTokenExpired", ret |-> ""]
    ELSE IF r.status = 404 THEN [exc |-> "UnknownUser", ret |-> ""]
    ELSE [exc |-> "Exception", ret |-> ""]

\* Oauth.join
join(db, user_id, resp) ==
  IF user_id \notin DOMAIN db THEN [exc |-> "UnknownUser", ret |-> ""]
  ELSE LET r == request("PUT", resp) IN
    IF r.exc # NoExc THEN [exc |-> r.exc, ret |-> ""]
    ELSE IF r.status = 201 THEN [exc |-> NoExc, ret |-> "Success"]
    ELSE IF r.status = 204 THEN [exc |-> NoExc, ret |-> "Already in guild"]
    ELSE IF r.status = 403 THEN [exc |-> "AccessTokenExpired", ret |-> ""]
    ELSE IF r.status = 404 THEN [exc |-> "UnknownUser", ret |-> ""]
    ELSE [exc |-> "Exception", ret |-> ""]

\* Mutant of validate_member: a 404 member lookup returns false.
validate_member_404_false(resp, presp) ==
  LET r == request("GET", resp) IN
  IF r.exc # NoExc THEN [exc |-> r.exc, ret |-> "", puts |-> 0]
  ELSE IF r.status = 200 THEN
    LET p == request("PUT", presp) IN
    IF p.exc # NoExc THEN [exc |-> p.exc, ret |-> "", puts |-> 1]
    ELSE [exc |-> NoExc, ret |-> "true", puts |-> 1]
  ELSE [exc |-> NoExc, ret |-> "false", puts |-> 0]

\* Oauth.validate_user after set_access_token: resp answers the member lookup,
\* presp the role-grant PUT (read only when the lookup returned 200).
validate_member(resp, presp) ==
  LET r == request("GET", resp) IN
  IF r.exc # NoExc THEN [exc |-> r.exc, ret |-> "", puts |-> 0]
  ELSE IF r.status = 200 THEN
    LET p == request("PUT", presp) IN
    IF p.exc # NoExc THEN [exc |-> p.exc, ret |-> "", puts |-> 1]
    ELSE [exc |-> NoExc, ret |-> "true", puts |-> 1]
  ELSE IF r.status = 404 THEN [exc |-> "UnknownUser", ret |-> "", puts |-> 0]
  ELSE [exc |-> NoExc, ret |-> "false", puts |-> 0]

\* join_all: the members the for loop ranges over, db_members - guild_members.
ToJoin(db_m, guild_m) == db_m \ guild_m

\* Mutant of JoinAllCaught: AccessTokenExpired is not caught.
JoinAllCaught_without_expired == {"UnknownUser", "InvalidGrant"}

\* join_all: the exceptions its first "except" clause catches.
JoinAllCaught == {"UnknownUser", "InvalidGrant", "AccessTokenExpired"}
\* join_all: the exceptions the "except" around the retry catches.
RetryCaught == {"AccessTokenExpired"}
\* refresh_all: the exceptions its "except" clause catches.
RefreshAllCaught == {"UnknownUser", "InvalidGrant"}
\* Mutant of RetryExpiredNext: the member is refreshed and retried again.
RetryExpiredNext_refresh_again == "refresh"

\* join_all: where "continue" leads after the retry raised AccessTokenExpired:
\* to the next member of the loop.
RetryExpiredNext == "loop"
\* callback: the exceptions its "except" clause catches.
CallbackCaught == {"UnknownUser"}

\* --------------------------------------------------------- the environment
NoBody == [access_token |-> "", refresh_token |-> "", scope |-> {}]
NoUser == [id |-> "", username |-> ""]
\* A token body comes with a 200 answer only; an error answer has none.
BodiesOf(resp) == IF resp.status = 200 THEN TokenBodies ELSE {NoBody}
\* The token endpoint answers a refresh with the scopes granted before.
RefreshBodiesOf(resp) ==
  IF resp.status = 200
  THEN {b \in TokenBodies : b.scope = RequiredScopes}
  ELSE {NoBody}
UserBodiesOf(resp) == IF resp.status = 200 THEN UserBodies ELSE {NoUser}

\* ------------------------------------------------------------------- state
NoLast ==
  [op |-> "", arg |-> "", status |-> 0, error |-> "absent", scope |-> {},
   result |-> ""]

\* A call of join or set_refresh_token: the loop variable it was made for, its
\* argument, the status the provider answered (0: no request was issued) and
\* its outcome.
Call(op, m, arg, asked, resp, result) ==
  [op |-> op, member |-> m, arg |-> arg,
   status |-> IF asked THEN resp.status ELSE 0,
   error |-> IF asked THEN resp.error ELSE "absent",
   result |-> result]

\* The outcome of a call as one string: the exception, or what it returned.
JoinOutcome(j) == IF j.exc # NoExc THEN j.exc ELSE j.ret

TokenOutcome(s) ==
  IF s.exc # NoExc THEN s.exc ELSE IF s.ret = NoneVal THEN "None" ELSE "ok"

\* The concurrent callers of the Oauth methods.
Procs == {"p1", "p2"}
\* The user the concurrent calls are about.
ConcUser == "A"
\* db_data before find_one has answered.
NoData == [username |-> "", access_token |-> "", refresh_token |-> ""]
\* A caller that has not called yet: the method it runs, its position, and its
\* locals db_data (set_refresh_token), response and the profile read by
\* get_user (set_access_token).
NewProc == [op |-> "", pc |-> "new", db_data |-> NoData, body |-> NoBody,
            user |-> NoUser, exc |-> NoExc]

\* Mutant of asyncio_sleep: the delay is skipped.
asyncio_sleep_skipped(n) == n

\* await asyncio.sleep(1), as it acts on the count of join calls made since the
\* last delay: there is none.
asyncio_sleep(n) == 0

\* The record a user holds before the handler runs: each user has tokens of
\* his own.
StoredAtStart(u) ==
  [username |-> "n1",
   access_token |-> IF u = "B" THEN "t2" ELSE "t1",
   refresh_token |-> IF u = "C" THEN "r2" ELSE "r1"]

Init ==
  /\ store \in {[u \in S |-> StoredAtStart(u)] : S \in SUBSET UserIds}
  /\ guild \in SUBSET UserIds
  /\ pc = "idle"
  /\ cmd = ""
  /\ db_members = {}
  /\ guild_members = {}
  /\ pending = {}
  /\ member = ""
  /\ refresh_resp = NoneVal
  /\ completed = {}
  /\ cursor = {}
  /\ userid = ""
  /\ exc = NoExc
  /\ sent = {}
  /\ validated = NoExc
  /\ rolePuts = 0
  /\ roleStatus = 0
  /\ calls = {}
  /\ last = NoLast
  /\ store0 = store
  /\ joins = 0
  /\ refreshes = 0
  /\ edits = 0
  /\ issued = NoBody
  /\ profile = NoneVal
  /\ procs = [p \in Procs |-> NewProc]
  /\ rejected = {}
  /\ purged = {}

\* A handler starts when none is running; its locals start afresh.
Begin(c, p) ==
  /\ pc = "idle"
  /\ cmd' = c
  /\ pc' = p
  /\ member' = ""
  /\ refresh_resp' = NoneVal
  /\ completed' = {}
  /\ cursor' = {}
  /\ userid' = ""
  /\ exc' = NoExc
  /\ sent' = {}
  /\ validated' = NoExc
  /\ rolePuts' = 0
  /\ roleStatus' = 0
  /\ calls' = {}
  /\ last' = NoLast
  /\ store0' = store
  /\ joins' = 0
  /\ refreshes' = 0
  /\ edits' = 0
  /\ issued' = NoBody
  /\ profile' = NoneVal
  /\ UNCHANGED << store, guild, concvars >>

\* An exception e leaves join_all (or the loop of refresh_all): refresh_all
\* catches RefreshAllCaught around both and still sends its completion message.
Propagate(e) ==
  IF cmd = "refresh_all" /\ e \in RefreshAllCaught
  THEN /\ exc' = NoExc
       /\ sent' = sent \cup {"Completed refreshing members"}
       /\ pc' = "done"
  ELSE /\ exc' = e
       /\ sent' = sent
       /\ pc' = "done"

\* ----------------------------------------------------------------- bot.py
JoinAllBegin(c) ==
  /\ Cardinality(ToJoin(DOMAIN store, guild)) <= MaxBatch
  /\ Begin(c, "loop")
  /\ guild_members' = guild
  /\ db_members' = DOMAIN store
  /\ pending' = ToJoin(DOMAIN store, guild)

\* the command join_all
BotJoinAll == JoinAllBegin("join_all")

\* the command refresh_all, which first awaits join_all(ctx)
BotRefreshAll ==
  /\ Cardinality(DOMAIN store) <= MaxBatch
  /\ JoinAllBegin("refresh_all")

\* for member in db_members - guild_members: await asyncio.sleep(1)
JoinAllNext ==
  /\ pc = "loop"
  /\ pending # {}
  /\ \E m \in pending :
       /\ member' = m
       /\ pending' = pending \ {m}
  /\ pc' = "join"
  /\ refresh_resp' = NoneVal   \* not read before it is assigned again
  /\ joins' = asyncio_sleep(joins)
  /\ refreshes' = 0
  /\ UNCHANGED << store, guild, cmd, db_members, guild_members, completed,
                  cursor, userid, exc, sent, validated,
                  rolePuts, roleStatus, calls, last,
                  store0, edits, issued, profile, concvars >>

\* the loop is exhausted: ctx.send("Completed joining members"). In refresh_all
\* join_all returns here (its locals are gone) and the loop over the collection
\* starts.
JoinAllComplete ==
  /\ pc = "loop"
  /\ pending = {}
  /\ sent' = sent \cup {"Completed joining members"}
  /\ IF cmd = "refresh_all"
     THEN /\ pc' = "refresh_loop"
          /\ cursor' = DOMAIN store
          /\ member' = ""
          /\ refresh_resp' = NoneVal
          /\ completed' = {}
          /\ calls' = {}
          /\ last' = NoLast
          /\ joins' = 0
          /\ refreshes' = 0
          /\ edits' = 0
          /\ issued' = NoBody
     ELSE /\ pc' = "done"
          /\ UNCHANGED << cursor, member, refresh_resp, completed, calls, last,
                          joins, refreshes, edits, issued >>
  /\ UNCHANGED << store, guild, cmd, db_members, guild_members, pending,
                  userid, exc, validated,
                  rolePuts, roleStatus, store0, profile, concvars >>

\* What a join call leaves behind: the call's record and the answer it read.
JoinLast(op, arg, resp, j) ==
  [op |-> op, arg |-> arg,
   status |-> IF arg \in DOMAIN store THEN resp.status ELSE 0,
   error |-> IF arg \in DOMAIN store THEN resp.error ELSE "absent",
   scope |-> {}, result |-> JoinOutcome(j)]

\* try: await oauth.join(member) ... completed.add(member); msg.edit(...)
FirstJoin ==
  /\ pc = "join"
  /\ \E resp \in Responses :
       LET j == join(store, member, resp) IN
       /\ calls' = calls \cup {Call("join", member, member, member \in DOMAIN store,
                                     resp, JoinOutcome(j))}
       /\ last' = JoinLast("join", member, resp, j)
       /\ IF j.exc = NoExc
          THEN /\ completed' = completed \cup {member}
               /\ edits' = edits + 1
               /\ pc' = "loop"
               /\ UNCHANGED << exc, sent >>
          ELSE IF j.exc \in JoinAllCaught
          THEN /\ pc' = "refresh"
               /\ UNCHANGED << completed, edits, exc, sent >>
          ELSE /\ Propagate(j.exc)
               /\ UNCHANGED << completed, edits >>
  /\ joins' = joins + 1
  /\ UNCHANGED << store, guild, cmd, db_members, guild_members, pending, member,
                  refresh_resp, cursor, userid, validated,
                  rolePuts, roleStatus, store0, refreshes, issued, profile,
                  concvars >>

RefreshLast(arg, resp, s) ==
  [op |-> "set_refresh_token", arg |-> arg,
   status |-> IF arg \in DOMAIN store THEN resp.status ELSE 0,
   error |-> IF arg \in DOMAIN store THEN resp.error ELSE "absent",
   scope |-> {}, result |-> TokenOutcome(s)]

\* except (...): refresh_resp = await oauth.set_refresh_token(member)
\*               if not refresh_resp: continue
Refresh ==
  /\ pc = "refresh"
  /\ \E resp \in Responses : \E body \in RefreshBodiesOf(resp) :
       LET s == set_refresh_token(store, member, resp, body) IN
       /\ store' = s.db
       /\ calls' = calls \cup {Call("refresh", member, member,
                                     member \in DOMAIN store, resp,
                                     TokenOutcome(s))}
       /\ last' = RefreshLast(member, resp, s)
       /\ issued' = IF member \in DOMAIN store THEN body ELSE NoBody
       /\ IF s.exc # NoExc
          THEN Propagate(s.exc) /\ refresh_resp' = refresh_resp
          ELSE IF s.ret = NoneVal
          THEN /\ pc' = "loop"
               /\ refresh_resp' = s.ret
               /\ UNCHANGED << exc, sent >>
          ELSE /\ pc' = "retry"
               /\ refresh_resp' = s.ret
               /\ UNCHANGED << exc, sent >>
  /\ refreshes' = refreshes + 1
  /\ UNCHANGED << guild, cmd, db_members, guild_members, pending, member,
                  completed, cursor, userid, validated,
                  rolePuts, roleStatus, store0, joins, edits, profile,
                  concvars >>

\* try: await oauth.join(refresh_resp[-1])
\* except AccessTokenExpired: delete_one({"_id": refresh_resp[-1]}); continue
RetryJoin ==
  /\ pc = "retry"
  /\ \E resp \in Responses :
       LET arg == refresh_resp[Len(refresh_resp)]
           j == join(store, arg, resp) IN
       /\ calls' = calls \cup {Call("retry", member, arg, arg \in DOMAIN store,
                                     resp, JoinOutcome(j))}
       /\ last' = JoinLast("retry", arg, resp, j)
       /\ IF j.exc = NoExc
          THEN /\ completed' = completed \cup {member}
               /\ edits' = edits + 1
               /\ pc' = "loop"
               /\ UNCHANGED << store, exc, sent >>
          ELSE IF j.exc \in RetryCaught
          THEN /\ store' = delete_one(store, arg)
               /\ pc' = RetryExpiredNext
               /\ UNCHANGED << completed, edits, exc, sent >>
          ELSE /\ Propagate(j.exc)
               /\ UNCHANGED << store, completed, edits >>
  /\ joins' = joins + 1
  /\ UNCHANGED << guild, cmd, db_members, guild_members, pending, member,
                  refresh_resp, cursor, userid, validated,
                  rolePuts, roleStatus, store0, refreshes, issued, profile,
                  concvars >>

\* refresh_all: async for member in find(): await set_refresh_token(member["_id"])
RefreshNext ==
  /\ pc = "refresh_loop"
  /\ cursor # {}
  /\ \E u \in cursor : \E resp \in Responses : \E body \in RefreshBodiesOf(resp) :
       LET s == set_refresh_token(store, u, resp, body) IN
       /\ cursor' = cursor \ {u}
       /\ store' = s.db
       /\ calls' = calls \cup {Call("refresh_all", u, u, u \in DOMAIN store, resp,
                                     TokenOutcome(s))}
       /\ last' = RefreshLast(u, resp, s)
       /\ issued' = IF u \in DOMAIN store THEN body ELSE NoBody
       /\ IF s.exc # NoExc
          THEN Propagate(s.exc)
          ELSE pc' = pc /\ UNCHANGED << exc, sent >>
  /\ UNCHANGED << guild, cmd, db_members, guild_members, pending, member,
                  refresh_resp, completed, userid, validated,
                  rolePuts, roleStatus, store0, joins, refreshes, edits,
                  profile, concvars >>

\* refresh_all: the collection is exhausted: ctx.send("Completed refreshing members")
RefreshComplete ==
  /\ pc = "refresh_loop"
  /\ cursor = {}
  /\ sent' = sent \cup {"Completed refreshing members"}
  /\ pc' = "done"
  /\ UNCHANGED << store, guild, cmd, db_members, guild_members, pending,
                  member, refresh_resp, completed, cursor, userid, exc,
                  validated,
                  rolePuts, roleStatus, calls, last, store0, joins,
                  refreshes, edits, issued, profile, concvars >>

\* ----------------------------------------------------------------- web.py
\* The methods class Oauth defines.
OauthMethods ==
  {"__init__", "__request", "get_user", "update_db", "set_access_token",
   "set_refresh_token", "get_authorization_url", "join", "validate_user"}

\* GET /join_all and GET /refresh_all both start with
\* await app.auth.join_all(): app.auth is the Oauth object, and the lookup of
\* an attribute the class does not define raises AttributeError, which leaves
\* the route before any request is made and before return "Done".
WebRoute(c) ==
  /\ pc = "idle"
  /\ cmd' = c
  /\ pc' = "done"
  /\ exc' = IF "join_all" \in OauthMethods THEN NoExc ELSE "AttributeError"
  /\ sent' = IF "join_all" \in OauthMethods THEN {"Done"} ELSE {}
  /\ member' = ""
  /\ refresh_resp' = NoneVal
  /\ completed' = {}
  /\ cursor' = {}
  /\ userid' = ""
  /\ validated' = NoExc
  /\ rolePuts' = 0
  /\ roleStatus' = 0
  /\ calls' = {}
  /\ last' = NoLast
  /\ store0' = store
  /\ joins' = 0
  /\ refreshes' = 0
  /\ edits' = 0
  /\ issued' = NoBody
  /\ profile' = NoneVal
  /\ UNCHANGED << store, guild, db_members, guild_members, pending, concvars >>

WebJoinAll == WebRoute("web_join_all")
WebRefreshAll == WebRoute("web_refresh_all")

\* GET /callback: without a code the route redirects at once.
WebCallback ==
  /\ \E code \in BOOLEAN : Begin("callback", IF code THEN "exchange" ELSE "done")
  /\ UNCHANGED << db_members, guild_members, pending >>

\* validate_user ended with exception e: callback swallows CallbackCaught and
\* redirects; anything else leaves the route.
CallbackRaise(e) ==
  /\ validated' = e
  /\ exc' = IF e \in CallbackCaught THEN NoExc ELSE e
  /\ pc' = "done"

\* validate_user: userid, _, _ = await self.set_access_token(code=code)
Exchange ==
  /\ pc = "exchange"
  /\ \E resp \in Responses : \E body \in BodiesOf(resp) :
     \E uresp \in Responses : \E ubody \in UserBodiesOf(uresp) :
       LET s == set_access_token(store, resp, body, uresp, ubody) IN
       /\ store' = s.db
       /\ last' = [op |-> "set_access_token", arg |-> "", status |-> resp.status,
                   error |-> resp.error, scope |-> body.scope,
                   result |-> TokenOutcome(s)]
       /\ issued' = IF s.exc = NoExc THEN body ELSE NoBody
       /\ profile' = IF s.exc = NoExc THEN << s.ret[1], s.ret[2] >> ELSE NoneVal
       /\ IF s.exc # NoExc
          THEN CallbackRaise(s.exc) /\ userid' = userid
          ELSE /\ userid' = s.ret[1]
               /\ pc' = "lookup"
               /\ UNCHANGED << exc, validated >>
  /\ UNCHANGED << guild, cmd, db_members, guild_members, pending, member,
                  refresh_resp, completed, cursor, sent,
                  rolePuts, roleStatus, calls, store0, joins, refreshes, edits,
                  concvars >>

\* validate_user: the member lookup and the role grant; then the redirect.
Lookup ==
  /\ pc = "lookup"
  /\ \E resp \in Responses : \E presp \in Responses :
       LET v == validate_member(resp, IF resp.status = 200 THEN presp ELSE NoResp) IN
       /\ rolePuts' = v.puts
       /\ roleStatus' = IF v.puts = 0 THEN 0 ELSE presp.status
       /\ last' = [op |-> "member_lookup", arg |-> userid, status |-> resp.status,
                   error |-> resp.error, scope |-> {}, result |-> JoinOutcome(v)]
       /\ IF v.exc # NoExc
          THEN CallbackRaise(v.exc)
          ELSE /\ validated' = v.ret
               /\ exc' = NoExc
               /\ pc' = "done"
  /\ UNCHANGED << store, guild, cmd, db_members, guild_members, pending,
                  member, refresh_resp, completed, cursor, userid, sent, calls,
                  store0, joins, refreshes, edits, issued, profile, concvars >>

Next ==
  \/ BotJoinAll
  \/ BotRefreshAll
  \/ JoinAllNext
  \/ JoinAllComplete
  \/ FirstJoin
  \/ Refresh
  \/ RetryJoin
  \/ RefreshNext
  \/ RefreshComplete
  \/ WebJoinAll
  \/ WebRefreshAll
  \/ WebCallback
  \/ Exchange
  \/ Lookup

Spec == Init /\ [][Next]_vars

\* ------------------------------------- Oauth methods called concurrently
\* Two coroutines call set_refresh_token(ConcUser) or set_access_token on the
\* same store; a step of a caller is what it does between two awaits.
Goto(p, q) == procs' = [procs EXCEPT ![p] = q]

\* set_refresh_token: db_data = await find_one({"_id": user_id});
\* if not db_data: raise UnkownUser
Find(p) ==
  /\ procs[p].pc = "new"
  /\ IF ConcUser \in DOMAIN store
     THEN Goto(p, [procs[p] EXCEPT !.op = "set_refresh_token", !.pc = "post",
                                   !.db_data = store[ConcUser]])
     ELSE Goto(p, [procs[p] EXCEPT !.op = "set_refresh_token", !.pc = "done",
                                   !.exc = "UnknownUser"])
  /\ UNCHANGED << store, rejected, purged, runvars >>

\* set_refresh_token: the exchange of db_data["refresh_token"], awaited.
PostRefresh(p) ==
  /\ procs[p].op = "set_refresh_token"
  /\ procs[p].pc = "post"
  /\ \E resp \in Responses : \E body \in RefreshBodiesOf(resp) :
       LET r == request("POST", resp) IN
       IF r.exc = "InvalidGrant"
       THEN /\ Goto(p, [procs[p] EXCEPT !.pc = "delete"])
            /\ rejected' = rejected \cup {procs[p].db_data.refresh_token}
       ELSE /\ rejected' = rejected
            /\ IF r.exc # NoExc
               THEN Goto(p, [procs[p] EXCEPT !.pc = "done", !.exc = r.exc])
               ELSE IF r.status # 200
               THEN Goto(p, [procs[p] EXCEPT !.pc = "done", !.exc = "KeyError"])
               ELSE Goto(p, [procs[p] EXCEPT !.pc = "update", !.body = body])
  /\ UNCHANGED << store, purged, runvars >>

\* set_refresh_token: except InvalidGrant: await delete_one({"_id": user_id})
Delete(p) ==
  /\ procs[p].pc = "delete"
  /\ store' = delete_one(store, ConcUser)
  /\ purged' = IF ConcUser \in DOMAIN store
               THEN purged \cup {store[ConcUser].refresh_token}
               ELSE purged
  /\ Goto(p, [procs[p] EXCEPT !.pc = "done"])
  /\ UNCHANGED << rejected, runvars >>

\* set_access_token: the code exchange, awaited, and the scope check.
PostCode(p) ==
  /\ procs[p].pc = "new"
  /\ \E resp \in Responses : \E body \in BodiesOf(resp) :
       LET r == request("POST", resp)
           e == IF r.exc # NoExc THEN r.exc
                ELSE IF r.status # 200 THEN "KeyError"
                ELSE IF ~(RequiredScopes \subseteq body.scope) THEN "InvalidScope"
                ELSE NoExc
       IN IF e # NoExc
          THEN Goto(p, [procs[p] EXCEPT !.op = "set_access_token",
                                        !.pc = "done", !.exc = e])
          ELSE Goto(p, [procs[p] EXCEPT !.op = "set_access_token",
                                        !.pc = "get_user", !.body = body])
  /\ UNCHANGED << store, rejected, purged, runvars >>

\* set_access_token: userid, username = await self.get_user(...);
\* if userid and username: ...
GetUser(p) ==
  /\ procs[p].pc = "get_user"
  /\ \E uresp \in Responses : \E ubody \in UserBodiesOf(uresp) :
       LET u == get_user(uresp, ubody) IN
       IF u.exc # NoExc
       THEN Goto(p, [procs[p] EXCEPT !.pc = "done", !.exc = u.exc])
       ELSE IF u.ret[1] # "" /\ u.ret[2] # ""
       THEN Goto(p, [procs[p] EXCEPT !.pc = "update", !.user = ubody])
       ELSE Goto(p, [procs[p] EXCEPT !.pc = "done", !.user = ubody])
  /\ UNCHANGED << store, rejected, purged, runvars >>

\* await self.update_db(...), the last await of both methods.
Update(p) ==
  /\ procs[p].pc = "update"
  /\ store' =
       IF procs[p].op = "set_refresh_token"
       THEN update_db(store, << ConcUser, procs[p].db_data.username >>,
                      procs[p].body.access_token, procs[p].body.refresh_token)
       ELSE update_db(store, << procs[p].user.id, procs[p].user.username >>,
                      procs[p].body.access_token, procs[p].body.refresh_token)
  /\ Goto(p, [procs[p] EXCEPT !.pc = "done"])
  /\ UNCHANGED << rejected, purged, runvars >>

NextConc ==
  \E p \in Procs :
    \/ Find(p)
    \/ PostRefresh(p)
    \/ Delete(p)
    \/ PostCode(p)
    \/ GetUser(p)
    \/ Update(p)

SpecConc == Init /\ [][NextConc]_vars

\* ------------------------------------------------- Oauth.join, called twice
\* What the provider can answer to the PUT of join(u) when the roster is g:
\* 201 "Success" adds a user who was not a member, 204 "Already in guild" finds
\* the user on the roster.
JoinAnswers(u, g) ==
  {r \in Responses : /\ r.status = 201 => u \notin g
                     /\ r.status = 204 => u \in g}

\* A client awaits oauth.join(u), and then awaits it once more for the same u.
ApiJoin(first) ==
  /\ pc = IF first THEN "idle" ELSE "called"
  /\ \E u \in IF first THEN Strings ELSE {member} :
     \E resp \in JoinAnswers(u, guild) :
       LET j == join(store, u, resp) IN
       /\ member' = u
       /\ calls' = calls \cup {Call(IF first THEN "join" ELSE "again", u, u,
                                     u \in DOMAIN store, resp, JoinOutcome(j))}
       /\ last' = JoinLast("join", u, resp, j)
       /\ guild' = IF u \in DOMAIN store /\ resp.status = 201
                   THEN guild \cup {u} ELSE guild
       /\ exc' = j.exc
  /\ cmd' = "join"
  /\ pc' = IF first THEN "called" ELSE "done"
  /\ guild_members' = IF first THEN guild ELSE guild_members
  /\ store0' = IF first THEN store ELSE store0
  /\ joins' = joins + 1
  /\ UNCHANGED << store, db_members, pending, refresh_resp, completed, cursor,
                  userid, sent, validated, rolePuts, roleStatus, refreshes,
                  edits, issued, profile, concvars >>

JoinFirst == ApiJoin(TRUE)
JoinSecond == ApiJoin(FALSE)

NextJoin ==
  \/ JoinFirst
  \/ JoinSecond

SpecJoin == Init /\ [][NextJoin]_vars

\* The store maps user ids to records.
TypeOK ==
  /\ DOMAIN store \subseteq UserIds
  /\ \A u \in DOMAIN store : store[u] \in Records
  /\ pending \subseteq db_members \ guild_members
  /\ completed \subseteq db_members

\* ------------------------------------------------------------------ claims
CompletedJoining == "Completed joining members"
CompletedRefreshing == "Completed refreshing members"

\* The identifiers join was invoked with in the running command.
JoinArgs == {c.arg : c \in {d \in calls : d.op \in {"join", "retry"}}}

\* The first join of the member a call was made for raised AccessTokenExpired.
FirstJoinExpired(m) ==
  \E c \in calls :
    c.op = "join" /\ c.member = m /\ c.result = "AccessTokenExpired"

\* C1: a join_all run never ends on a member's UnknownUser, AccessTokenExpired,
\* InvalidGrant, RateLimited or Unauthorized: when it ends, every member of
\* toJoin was processed and the completion message was sent.
C1_RunNeverAborted ==
  (cmd = "join_all" /\ pc = "done") =>
    /\ exc \notin {"UnknownUser", "AccessTokenExpired", "InvalidGrant",
                   "RateLimited", "Unauthorized"}
    /\ exc = NoExc => (pending = {} /\ CompletedJoining \in sent)

\* C2: when a join_all run ends, join was never invoked with an identifier
\* outside toJoin = stored - roster, and a run that reached its completion
\* message invoked join on exactly the members of toJoin.
C2_JoinsExactlyToJoin ==
  (cmd = "join_all" /\ pc = "done") =>
    /\ JoinArgs \subseteq db_members \ guild_members
    /\ exc = NoExc => JoinArgs = db_members \ guild_members

\* C3: the retry that follows an AccessTokenExpired first join and a successful
\* refresh is a join of that same member's user id.
C3_RetryIsForTheMember ==
  \A c \in calls :
    (c.op = "retry" /\ FirstJoinExpired(c.member)) => c.arg = c.member

\* C4: after the retry join of a member raised AccessTokenExpired a second time,
\* the member's record is absent from the store and the member is not in
\* completed.
C4_SecondExpiryDeletesMember ==
  (last.op = "retry" /\ last.result = "AccessTokenExpired"
     /\ FirstJoinExpired(member)) =>
    (member \notin DOMAIN store /\ member \notin completed)

\* C5: when set_refresh_token(u) returns from an exchange answered 400
\* invalid_grant, it has returned None without raising and u has no record.
C5_InvalidGrantPurges ==
  (last.op = "set_refresh_token" /\ last.status = 400
     /\ last.error = "invalid_grant") =>
    (last.result = "None" /\ last.arg \notin DOMAIN store
       /\ (pc = "done" => exc = NoExc))

C5_Witness ==
  /\ last.op = "set_refresh_token"
  /\ last.status = 400
  /\ last.error = "invalid_grant"
  /\ last.arg \in DOMAIN store0
  /\ last.arg \notin DOMAIN store
  /\ last.result = "None"

\* C6: a code exchange whose returned scopes lack "identify" or "guilds.join"
\* signals InvalidScope and leaves every record of the store as it was.
C6_ScopeLackingWritesNothing ==
  (last.op = "set_access_token" /\ last.status = 200
     /\ ("identify" \notin last.scope \/ "guilds.join" \notin last.scope)) =>
    (last.result = "InvalidScope" /\ validated = "InvalidScope" /\ store = store0)

C6_Witness ==
  /\ last.op = "set_access_token"
  /\ last.status = 200
  /\ last.scope = {"identify"}
  /\ validated = "InvalidScope"
  /\ DOMAIN store = {"A", "B"}
  /\ store = store0

\* The scenario of C7: the store holds A, B and C, the roster is {C}, the
\* provider accepts A's join (201), rejects B's join (403) and rejects B's
\* refresh token (400 invalid_grant).
C7_Scenario ==
  /\ cmd = "join_all"
  /\ db_members = {"A", "B", "C"}
  /\ guild_members = {"C"}
  /\ \A c \in calls :
       /\ (c.op = "join" /\ c.arg = "A") => c.status = 201
       /\ (c.op = "join" /\ c.arg = "B") => c.status = 403
       /\ (c.op = "refresh" /\ c.arg = "B") =>
            (c.status = 400 /\ c.error = "invalid_grant")

\* C7: in the scenario run join is attempted for A and B and never for C, A is
\* joined, B is deleted by its failed refresh and is not in progress, and the
\* run ends without an exception with completed = {A} and store = {A, C}.
C7_ScenarioRun ==
  C7_Scenario =>
    /\ exc = NoExc
    /\ "C" \notin JoinArgs
    /\ \A c \in calls : c.member # "C" /\ c.op # "retry"
    /\ (\E c \in calls : c.op = "join" /\ c.arg = "A") => "A" \in completed
    /\ (\E c \in calls : c.op = "refresh" /\ c.arg = "B") =>
         ("B" \notin DOMAIN store /\ "B" \notin completed)
    /\ pc = "done" =>
         /\ JoinArgs = {"A", "B"}
         /\ completed = {"A"}
         /\ DOMAIN store = {"A", "C"}
         /\ store["A"] = store0["A"]
         /\ store["C"] = store0["C"]
         /\ CompletedJoining \in sent

C7_Witness ==
  /\ C7_Scenario
  /\ pc = "done"
  /\ JoinArgs = {"A", "B"}
  /\ completed = {"A"}
  /\ DOMAIN store = {"A", "C"}

\* C8: when refresh_all has sent its completion message, set_refresh_token was
\* called in the command for every record the store holds.
C8_EveryRecordRefreshed ==
  (cmd = "refresh_all" /\ pc = "done" /\ CompletedRefreshing \in sent) =>
    \A u \in DOMAIN store :
      \E c \in calls : c.op \in {"refresh", "refresh_all"} /\ c.arg = u

\* C9: GET /callback always ends in the redirect: no exception of
\* validate_user leaves the route.
C9_CallbackAlwaysRedirects ==
  (cmd = "callback" /\ pc = "done") => exc = NoExc

\* The statuses __request hands back to its caller.
ReturnedStatuses == Statuses \ {400, 401, 429}

\* C10 as stated: a 200 member lookup issues exactly one role-grant PUT and
\* returns true; a 404 signals UnknownUser without a role-grant call; any other
\* returned status returns false without a role-grant call.
C10_LookupClassification ==
  (cmd = "callback" /\ pc = "done" /\ last.op = "member_lookup") =>
    /\ last.status = 200 => (rolePuts = 1 /\ validated = "true")
    /\ last.status = 404 => (rolePuts = 0 /\ validated = "UnknownUser")
    /\ last.status \in ReturnedStatuses \ {200, 404} =>
         (rolePuts = 0 /\ validated = "false")

\* C10 amended: a 200 member lookup issues exactly one role-grant PUT and
\* returns true unless that PUT is answered 400, 401 or 429, and then the error
\* __request raises for it (KeyError, Unauthorized, RateLimited) leaves
\* validate_user; 404 and the other returned statuses are as stated.
C10_LookupClassificationAmended ==
  (cmd = "callback" /\ pc = "done" /\ last.op = "member_lookup") =>
    /\ last.status = 200 =>
         /\ rolePuts = 1
         /\ roleStatus \in ReturnedStatuses => validated = "true"
         /\ roleStatus = 400 => validated = "KeyError"
         /\ roleStatus = 401 => validated = "Unauthorized"
         /\ roleStatus = 429 => validated = "RateLimited"
    /\ last.status = 404 => (rolePuts = 0 /\ validated = "UnknownUser")
    /\ last.status \in ReturnedStatuses \ {200, 404} =>
         (rolePuts = 0 /\ validated = "false")

C10_Witness ==
  /\ cmd = "callback"
  /\ pc = "done"
  /\ last.op = "member_lookup"
  /\ last.status = 200
  /\ rolePuts = 1
  /\ roleStatus = 204
  /\ validated = "true"

\* The HTTP method of the request whose answer a call recorded in last read.
MethodOf(op) ==
  IF op \in {"join", "retry"} THEN "PUT"
  ELSE IF op = "member_lookup" THEN "GET"
  ELSE "POST"

SuccessStatuses == {200, 201, 204}
Unclassified == {"Exception", "KeyError"}

\* C11: __request classifies an answer the same way whatever the method: 401
\* raises Unauthorized, 429 RateLimited, 400 with error "invalid_grant"
\* InvalidGrant, any other 400 and any other status that is not a success an
\* unclassified error, and only a success status is returned to the caller.
C11_UniformClassification ==
  last.status # 0 =>
    LET r == request(MethodOf(last.op),
                     [status |-> last.status, error |-> last.error]) IN
    /\ last.status = 401 => r.exc = "Unauthorized"
    /\ last.status = 429 => r.exc = "RateLimited"
    /\ (last.status = 400 /\ last.error = "invalid_grant") =>
         r.exc = "InvalidGrant"
    /\ (last.status = 400 /\ last.error # "invalid_grant") =>
         r.exc \in Unclassified
    /\ last.status \in SuccessStatuses => r.exc = NoExc
    /\ last.status \notin SuccessStatuses \cup {400, 401, 429} =>
         r.exc \in Unclassified

\* The part of C11 about a 400 "invalid_grant" answer alone.
C11_InvalidGrantWhateverTheMethod ==
  (last.status = 400 /\ last.error = "invalid_grant") =>
    request(MethodOf(last.op),
            [status |-> last.status, error |-> last.error]).exc = "InvalidGrant"

\* C12 as stated: between any two successive join attempts of a run, the retry
\* of a member after its own first attempt included, the delay step occurs:
\* no two join calls are made without asyncio.sleep(1) in between.
C12_DelayBetweenAnyTwoJoins == joins <= 1

\* C12 amended: the delay step comes right before the first join attempt of
\* every member, so that it separates the join attempts made for two
\* different members; the retry of a member is made with no delay after that
\* member's first attempt, and at most these two join calls share one delay.
C12_DelayBeforeEachMember ==
  /\ pc = "join" => joins = 0
  /\ pc \in {"refresh", "retry"} => joins = 1
  /\ joins <= 2
  /\ joins = 2 => last.op = "retry"

C12_Witness ==
  /\ cmd = "join_all"
  /\ pc = "join"
  /\ joins = 0
  /\ \E c \in calls : c.op = "retry" /\ c.member # member /\ c.status # 0

\* The two calls of SpecJoin were both answered with a status join takes for a
\* success, for a stored user who was on the roster before the first call.
C13_MemberWithValidToken ==
  /\ cmd = "join"
  /\ pc = "done"
  /\ member \in DOMAIN store0
  /\ member \in guild_members
  /\ \A c \in calls : c.status \in {201, 204}

\* C13: join called twice in a row for a stored user who is on the roster and
\* whose token the provider accepts both times returns "Already in guild" both
\* times, and the store after the second call is the store before the first.
C13_JoinTwiceAlreadyInGuild ==
  C13_MemberWithValidToken =>
    /\ \A c \in calls : c.result = "Already in guild"
    /\ \E c \in calls : c.op = "join"
    /\ \E c \in calls : c.op = "again"
    /\ exc = NoExc
    /\ store = store0

C13_Witness ==
  /\ C13_MemberWithValidToken
  /\ joins = 2
  /\ DOMAIN store = {"A", "B"}
  /\ store["A"] = StoredAtStart("A")
  /\ \A c \in calls : c.arg = "A" /\ c.result = "Already in guild"

\* C14: a request to GET /join_all or GET /refresh_all runs the reconciliation
\* on the Oauth object: when the route ends, join was attempted for every stored
\* user missing from the guild and the route has returned "Done".
C14_RouteReconcilesThenDone ==
  (cmd \in {"web_join_all", "web_refresh_all"} /\ pc = "done") =>
    /\ exc = NoExc
    /\ "Done" \in sent
    /\ ToJoin(DOMAIN store0, guild) \subseteq JoinArgs

\* A join of user id u returned "Success" or "Already in guild" in the run.
JoinedInRun(u) ==
  \E c \in calls :
    /\ c.op \in {"join", "retry"}
    /\ c.arg = u
    /\ c.result \in {"Success", "Already in guild"}

\* The refresh made for member u returned None.
RefreshedNone(u) ==
  \E c \in calls : c.op = "refresh" /\ c.member = u /\ c.result = "None"

\* C15: in every state of a join_all run, completed holds a user id exactly
\* when the user is in toJoin and a join of that user returned 201 or 204 in
\* the run; a user whose refresh returned None or whose record was deleted in
\* the run is not in completed; one progress edit is made per addition.
C15_CompletedIffJoined ==
  cmd = "join_all" =>
    /\ \A u \in UserIds :
         u \in completed <=>
           (u \in ToJoin(db_members, guild_members) /\ JoinedInRun(u))
    /\ \A u \in completed : ~RefreshedNone(u) /\ u \in DOMAIN store
    /\ edits = Cardinality(completed)

\* The part of C15 that does not depend on whom the retry joins: a member
\* whose record was deleted in the run is not in completed.
C15_DeletedNeverCompleted ==
  cmd = "join_all" => completed \subseteq DOMAIN store

\* The part of C15 that holds: completed holds the members for whom the first
\* attempt or the retry call returned, and one edit is made per addition.
C15_CompletedIffCallReturned ==
  cmd = "join_all" =>
    /\ \A u \in UserIds :
         u \in completed <=>
           \E c \in calls : /\ c.op \in {"join", "retry"}
                            /\ c.member = u
                            /\ c.result \in {"Success", "Already in guild"}
    /\ \A u \in completed : ~RefreshedNone(u)
    /\ edits = Cardinality(completed)

\* The calls of the run made in the iteration of member m.
CallsFor(m, ops) == {c \in calls : c.member = m /\ c.op \in ops}

\* C16: in one join_all run, the iteration of a member calls set_refresh_token
\* at most once and join at most twice (the retry comes only after the one
\* refresh), a member the loop has left is never taken up again, and only
\* members of toJoin are iterated: at most |toJoin| iterations.
C16_RetriesBounded ==
  /\ refreshes <= 1
  /\ joins <= 2
  /\ pc = "retry" => (refreshes = 1 /\ joins = 1)
  /\ cmd = "join_all" =>
       /\ pending \subseteq ToJoin(db_members, guild_members)
       /\ member \notin pending
       /\ \A c \in calls :
            /\ c.member \in ToJoin(db_members, guild_members) \ pending
            /\ Cardinality(CallsFor(c.member, {"refresh"})) <= 1
            /\ Cardinality(CallsFor(c.member, {"join", "retry"})) <= 2

C16_Witness ==
  /\ cmd = "join_all"
  /\ pc = "done"
  /\ exc = NoExc
  /\ Cardinality(ToJoin(db_members, guild_members)) = 2
  /\ \A m \in ToJoin(db_members, guild_members) :
       /\ Cardinality(CallsFor(m, {"refresh"})) = 1
       /\ Cardinality(CallsFor(m, {"join", "retry"})) = 2
  /\ last.op = "retry"
  /\ last.result = "AccessTokenExpired"

\* A step in which a call of set_refresh_token returns its triple.
RefreshSucceeds ==
  /\ pc = "refresh" \/ (pc = "refresh_loop" /\ cursor' # cursor)
  /\ last'.op = "set_refresh_token"
  /\ last'.result = "ok"

\* C17: a successful set_refresh_token(u) changes the token pair of u only:
\* afterwards u's record holds the access and refresh token the provider
\* returned and the username it held before, the triple returned is (u, that
\* username, the access token now stored), and every other record, and the
\* set of stored users, is as before the call.
C17_RefreshChangesOnlyTokens ==
  [][RefreshSucceeds =>
       LET u == last'.arg IN
       /\ u \in DOMAIN store
       /\ issued'.refresh_token \in IssuedRefreshTokens
       /\ store' = [store EXCEPT ![u] =
                      [username |-> store[u].username,
                       access_token |-> issued'.access_token,
                       refresh_token |-> issued'.refresh_token]]
       /\ pc = "refresh" =>
            refresh_resp' = << u, store[u].username, store'[u].access_token >>]_vars

C17_Witness ==
  /\ cmd = "join_all"
  /\ pc = "retry"
  /\ last.op = "set_refresh_token"
  /\ last.result = "ok"
  /\ member = "A"
  /\ DOMAIN store = {"A", "B"}
  /\ store["A"] = [username |-> "n1", access_token |-> "t3",
                   refresh_token |-> "r3"]
  /\ store0["A"].refresh_token = "r1"
  /\ store["B"] = store0["B"]
  /\ refresh_resp = << "A", "n1", "t3" >>

\* C18: when calls of set_refresh_token(u) and set_access_token interleave, a
\* record is deleted only while the refresh token it holds is one the provider
\* rejected: a record holding a pair the provider issued and never rejected is
\* never deleted.
C18_DeletesOnlyRejected == purged \subseteq rejected

\* C19: a join_all run touches the records of members of toJoin only: the
\* record of every stored user on the roster is, in every state of the run,
\* the record the user had when the run started.
C19_RosterRecordsUntouched ==
  cmd = "join_all" =>
    \A u \in db_members \cap guild_members :
      u \in DOMAIN store /\ store[u] = store0[u]

\* The part of C19 that holds: set_refresh_token, the only step that modifies
\* a record, is called for members of toJoin only, so a record is modified
\* only if it is that of a member of toJoin.
C19_OnlyToJoinModified ==
  cmd = "join_all" =>
    \A u \in DOMAIN store \cap DOMAIN store0 :
      store[u] # store0[u] => u \in ToJoin(db_members, guild_members)

\* In validate_user the code exchange, the scope check and the profile lookup
\* have succeeded: get_user returned a user id and a username.
ExchangeSucceeded ==
  /\ cmd = "callback"
  /\ pc \in {"lookup", "done"}
  /\ profile # NoneVal
  /\ profile[1] # ""
  /\ profile[2] # ""

\* C20 amended: validate_user persists the token pair before it looks at the
\* guild membership: once the code exchange, the scope check and the profile
\* lookup have succeeded and the profile holds a non-empty user id and a
\* non-empty username, the user's record is in the store with the new tokens, up
\* to and including the end of validate_user, whether it returns true, returns
\* false or raises, UnknownUser for a 404 member lookup included.
C20_PersistedBeforeMembership ==
  ExchangeSucceeded =>
    /\ RequiredScopes \subseteq issued.scope
    /\ profile[1] \in DOMAIN store
    /\ store[profile[1]] = [username |-> profile[2],
                            access_token |-> issued.access_token,
                            refresh_token |-> issued.refresh_token]
    /\ \A u \in DOMAIN store0 \ {profile[1]} :
         u \in DOMAIN store /\ store[u] = store0[u]

C20_Witness ==
  /\ ExchangeSucceeded
  /\ pc = "done"
  /\ last.op = "member_lookup"
  /\ last.status = 404
  /\ validated = "UnknownUser"
  /\ profile = << "A", "n1" >>
  /\ "A" \notin DOMAIN store0
  /\ store["A"] = [username |-> "n1", access_token |-> "t3",
                   refresh_token |-> "r3"]

\* C20 as stated: whenever the code exchange, the scope check and the profile
\* lookup succeed (get_user returned, whatever it returned), the user's record
\* is in the store with the new tokens up to the end of validate_user.
C20_PersistedWhateverTheProfile ==
  (cmd = "callback" /\ pc \in {"lookup", "done"} /\ profile # NoneVal) =>
    /\ profile[1] \in DOMAIN store
    /\ store[profile[1]] = [username |-> profile[2],
                            access_token |-> issued.access_token,
                            refresh_token |-> issued.refresh_token]

====
